---- MODULE Spec2Model ----
(***************************************************************************)
(* Interactive HTML BOM web front end: the multipart wire parser, the      *)
(* upload / serve / status / cleanup request handlers of BOMHandler and    *)
(* the Altium-to-KiCad converter orchestration of AltiumParser.            *)
(*                                                                         *)
(* Three specifications share the module:                                  *)
(*   SpecParse  parse_multipart_form_data applied to bounded request bodies *)
(*   Spec       the HTTP server handling one request after another         *)
(*   SpecConv   one call of AltiumParser._convert_to_kicad, step by step   *)
(***************************************************************************)
EXTENDS Integers, Sequences, FiniteSets, TLC

VARIABLES
    HAS_CGI,        \* web_server.HAS_CGI: the cgi module could be imported
    sent,           \* SpecParse: what the client encoded into the body
    post_data,      \* SpecParse: the request body handed to the parser
    content_type,   \* SpecParse: the Content-Type header handed to the parser
    form,           \* SpecParse: what parse_multipart_form_data returned/raised
    file_registry,  \* BOMHandler.file_registry (class attribute, shared dict)
    cls_temp_dir,   \* BOMHandler.temp_dir (class attribute)
    cls_output_dir, \* BOMHandler.output_dir (class attribute)
    handler,        \* instance attributes of the current request's handler
    disk,           \* the workspaces on disk
    outside,        \* files written on disk outside every workspace
    nextWs,         \* number of workspaces created so far (mkdtemp is fresh)
    response,       \* the last request and the response it got
    session,        \* history: workspace of the most recent upload session
    uploads,        \* history: per artifact name, the upload that returned it
    forms,          \* Spec: what the wire parser makes of each upload request
    perl,           \* SpecConv: how `perl --version` ends on this machine
    scripts,        \* SpecConv: the search locations that hold convertpcb.pl
    ancestors,      \* SpecConv: how many parent directories the source has
    unpack_pl,      \* SpecConv: unpack.pl exists beside convertpcb.pl
    src_mtime,      \* SpecConv: modification time of the .PcbDoc source
    conv_mtime,     \* SpecConv: that of the .kicad_pcb beside it, 0 if absent
    had_cache,      \* history: the converted file was valid when called
    pc,             \* SpecConv: where _convert_to_kicad stands
    converter_dir,  \* SpecConv: what _find_altium2kicad returned
    scratch,        \* SpecConv: the altium2kicad_* scratch directory exists
    cwd,            \* SpecConv: the process working directory
    pending,        \* SpecConv: the return or exception travelling outwards
    conv_result,    \* SpecConv: what _convert_to_kicad returned
    calls,          \* history: the external programs run, in order, each
                    \* toolchain step followed by how it ended
    fs_ops,         \* history: the file-system operations of the attempt, in order
    logged          \* history: the errors given to logger.error, in order

-----------------------------------------------------------------------------
(* Bounds *)

MaxLen == 2      \* longest file payload, in bytes
MaxWs == 2       \* most workspaces the server creates in one run
MaxMtime == 2    \* latest modification time of a file on disk
MaxScripts == 2  \* most search locations holding a copy of the toolchain

-----------------------------------------------------------------------------
(* Bytes.  A request body is a sequence of bytes; a whole header line is one *)
(* element of the sequence (its text matters only to the two regular        *)
(* expressions that read the field name and the file name out of it).       *)

CR == "CR"
LF == "LF"
DASH == "-"
PayloadBytes == {"a", CR, LF, DASH}
CRLF == <<CR, LF>>

NoName == "<none>"

\* the file names a client may send
FileNames == {"a.kicad_pcb", "b.PcbDoc", "c.txt", "f.KICAD_PCB", "../d.txt", "../e.kicad_pcb"}
\* the field names a body may carry
FieldNames == {"file", "temp_dir"}

\* The header line  Content-Disposition: form-data; name="n"; filename="f"
Disposition(n, f) ==
    "Content-Disposition: form-data"
        \o (IF n = NoName THEN "" ELSE "; name=" \o n)
        \o (IF f = NoName THEN "" ELSE "; filename=" \o f)

HeaderLines ==
    {Disposition(n, f) : n \in FieldNames \cup {NoName}, f \in FileNames \cup {NoName}}

\* re.search(r'name="([^"]+)"', content_disp)
NameOf(line) ==
    IF \E n \in FieldNames, f \in FileNames \cup {NoName} : line = Disposition(n, f)
    THEN CHOOSE n \in FieldNames :
            \E f \in FileNames \cup {NoName} : line = Disposition(n, f)
    ELSE NoName

\* re.search(r'filename="([^"]+)"', content_disp)
FilenameOf(line) ==
    IF \E n \in FieldNames \cup {NoName}, f \in FileNames : line = Disposition(n, f)
    THEN CHOOSE f \in FileNames :
            \E n \in FieldNames \cup {NoName} : line = Disposition(n, f)
    ELSE NoName

-----------------------------------------------------------------------------
(* Sequence helpers: bytes.split, bytes.strip, bytes.rstrip, bytes.endswith *)

Min(S) == CHOOSE x \in S : \A y \in S : x <= y

Slice(s, i, j) == IF i > j THEN <<>> ELSE SubSeq(s, i, j)

\* the positions at which sub occurs in s
Occurrences(s, sub) ==
    {i \in 1..(Len(s) - Len(sub) + 1) : SubSeq(s, i, i + Len(sub) - 1) = sub}

Contains(s, sub) == Occurrences(s, sub) # {}

EndsWith(s, suf) ==
    Len(s) >= Len(suf) /\ SubSeq(s, Len(s) - Len(suf) + 1, Len(s)) = suf

\* s.split(sep): every piece between non-overlapping occurrences, left to right
RECURSIVE Split(_, _)
Split(s, sep) ==
    IF ~Contains(s, sep) THEN <<s>>
    ELSE LET i == Min(Occurrences(s, sep))
         IN  <<Slice(s, 1, i - 1)>> \o Split(Slice(s, i + Len(sep), Len(s)), sep)

\* s.split(sep, 1)
SplitOnce(s, sep) ==
    LET i == Min(Occurrences(s, sep))
    IN  <<Slice(s, 1, i - 1), Slice(s, i + Len(sep), Len(s))>>

\* s.rstrip(chars)
RECURSIVE RStrip(_, _)
RStrip(s, chars) ==
    IF s # <<>> /\ s[Len(s)] \in chars THEN RStrip(Slice(s, 1, Len(s) - 1), chars) ELSE s

RECURSIVE LStrip(_, _)
LStrip(s, chars) ==
    IF s # <<>> /\ s[1] \in chars THEN LStrip(Tail(s), chars) ELSE s

\* bytes.strip(): the only whitespace bytes of the alphabet are CR and LF
Strip(s) == LStrip(RStrip(s, {CR, LF}), {CR, LF})

-----------------------------------------------------------------------------
(* The Content-Type header: a media type and its parameters, in order.      *)

Param(k, v) == [key |-> k, value |-> v]
ContentType(m, ps) == [mime |-> m, params |-> ps]

BoundaryToken == "B"

\* the headers an upload request may carry
ContentTypes ==
    { ContentType("multipart/form-data", <<Param("boundary", BoundaryToken)>>),
      ContentType("multipart/form-data",
                  <<Param("charset", "utf-8"), Param("boundary", BoundaryToken)>>),
      ContentType("multipart/form-data", <<>>),
      ContentType("multipart/form-data", <<Param("charset", "utf-8")>>),
      ContentType("multipart/form-data", <<Param("boundary", "")>>),
      ContentType("multipart/form-data", <<Param("xboundary", BoundaryToken)>>) }

\* the parameter is called boundary
HasBoundaryParam(ct) ==
    \E i \in DOMAIN ct.params : ct.params[i].key = "boundary" /\ ct.params[i].value # ""

\* The text "boundary=" occurs in  key=value  exactly when the key ends with it.
EndsWithBoundary(key) == key \in {"boundary", "xboundary"}

\* re.search(r'boundary=([^;]+)', content_type): an unanchored search of the
\* header text, so it also finds the text inside a longer parameter name.
BoundarySearch(ct) ==
    {i \in DOMAIN ct.params :
        EndsWithBoundary(ct.params[i].key) /\ ct.params[i].value # ""}

-----------------------------------------------------------------------------
(* What the parser returns: an error, or the fields by name.                *)

NoFields == [n \in {} |-> 0]
ParseError == [ok |-> FALSE, fields |-> NoFields]
Parsed(fs) == [ok |-> TRUE, fields |-> fs]

\* FieldItem(filename=..., file_data=body) / FieldItem(value=body.decode())
FieldItem(fname, body) == [filename |-> fname, data |-> body]

\* form._fields[field_name] = ...: the last part of a name wins
SetField(fs, n, item) == (n :> item) @@ fs

\* lines 124-131: drop a trailing boundary marker, then trailing line ends
TrimBody(body) ==
    LET cut == IF EndsWith(body, <<DASH, DASH, CR, LF>>)
                   THEN Slice(body, 1, Len(body) - 4)
               ELSE IF EndsWith(body, <<DASH, DASH>>)
                   THEN Slice(body, 1, Len(body) - 2)
               ELSE body
    IN  RStrip(cut, {CR, LF})

\* the header lines of a header block: the last Content-Disposition wins
DispositionOf(header_part) ==
    LET at == {i \in DOMAIN header_part : header_part[i] \in HeaderLines}
    IN  IF at = {} THEN "" ELSE header_part[CHOOSE i \in at : \A j \in at : j <= i]

\* one turn of the loop of lines 97-137 on `part`, the fields so far being fs
ParsePart(part, fs) ==
    IF Strip(part) = <<>> \/ Strip(part) = <<DASH, DASH>> THEN fs
    ELSE IF ~Contains(part, CRLF \o CRLF) /\ ~Contains(part, <<LF, LF>>) THEN fs
    ELSE LET hb == IF Contains(part, CRLF \o CRLF)
                       THEN SplitOnce(part, CRLF \o CRLF)
                       ELSE SplitOnce(part, <<LF, LF>>)
             content_disp == DispositionOf(hb[1])
             field_name == NameOf(content_disp)
             filename == FilenameOf(content_disp)
             body == TrimBody(hb[2])
         IN  IF field_name = NoName THEN fs
             ELSE SetField(fs, field_name, FieldItem(filename, body))

RECURSIVE ParseParts(_, _, _)
ParseParts(parts, i, fs) ==
    IF i > Len(parts) THEN fs ELSE ParseParts(parts, i + 1, ParsePart(parts[i], fs))

\* lines 53-139: the parser used when the cgi module is absent
ManualParse(data, ct) ==
    IF BoundarySearch(ct) = {} THEN ParseError
    ELSE LET boundary == ct.params[Min(BoundarySearch(ct))].value
             parts == Split(data, <<DASH, DASH, boundary>>)
         IN  Parsed(ParseParts(parts, 1, NoFields))

\* cgi.FieldStorage on one part: the header block ends at the first blank
\* line, the payload is what follows up to the line end before the delimiter
CgiPart(part, fs) ==
    IF EndsWith(Slice(part, 1, 2), <<DASH, DASH>>) \/ part = <<>> THEN fs
    ELSE LET split == Contains(part, CRLF \o CRLF)
             hb == IF split THEN SplitOnce(part, CRLF \o CRLF) ELSE <<part, <<>>>>
             content_disp == DispositionOf(hb[1])
             body == IF EndsWith(hb[2], CRLF) THEN Slice(hb[2], 1, Len(hb[2]) - 2)
                     ELSE IF EndsWith(hb[2], <<LF>>) THEN Slice(hb[2], 1, Len(hb[2]) - 1)
                     ELSE hb[2]
         IN  IF NameOf(content_disp) = NoName THEN fs
             ELSE SetField(fs, NameOf(content_disp),
                           FieldItem(FilenameOf(content_disp), body))

RECURSIVE CgiParts(_, _, _)
CgiParts(parts, i, fs) ==
    IF i > Len(parts) THEN fs ELSE CgiParts(parts, i + 1, CgiPart(parts[i], fs))

\* lines 40-51: cgi.FieldStorage(fp, headers, environ); it raises ValueError
\* for a multipart type whose boundary parameter is missing or empty
CgiParse(data, ct) ==
    IF ~HasBoundaryParam(ct) THEN ParseError
    ELSE LET boundary == (CHOOSE p \in {ct.params[i] : i \in DOMAIN ct.params} :
                              p.key = "boundary").value
             parts == Split(data, <<DASH, DASH, boundary>>)
         IN  Parsed(CgiParts(Tail(parts), 1, NoFields))

\* parse_multipart_form_data(post_data, content_type, headers)
parse_multipart_form_data(data, ct, has_cgi) ==
    IF has_cgi THEN CgiParse(data, ct) ELSE ManualParse(data, ct)


-----------------------------------------------------------------------------
(* Request bodies as a client encodes them (RFC 7578).                      *)

Delimiter == <<DASH, DASH, BoundaryToken>>
CloseDelimiter == Delimiter \o <<DASH, DASH>> \o CRLF

\* one part: delimiter line, header line, blank line, payload, line end
EncodePart(header, payload) ==
    Delimiter \o CRLF \o <<header>> \o CRLF \o CRLF \o payload \o CRLF

\* a part whose header block is not closed by a blank line
EncodeBrokenPart(header) == Delimiter \o CRLF \o <<header>> \o CRLF

HintValue == <<"a">>
Shapes == {"file", "file+hint", "nofile", "nofilename", "nosplit"}

\* the shapes that are valid bodies with exactly one file part named file
ValidShapes == {"file", "file+hint"}

Encode(shape, fname, payload) ==
    CASE shape = "file" ->
            EncodePart(Disposition("file", fname), payload) \o CloseDelimiter
      [] shape = "file+hint" ->
            EncodePart(Disposition("file", fname), payload)
                \o EncodePart(Disposition("temp_dir", NoName), HintValue)
                \o CloseDelimiter
      [] shape = "nofile" ->
            EncodePart(Disposition("temp_dir", NoName), HintValue) \o CloseDelimiter
      [] shape = "nofilename" ->
            EncodePart(Disposition("file", NoName), payload) \o CloseDelimiter
      [] shape = "nosplit" ->
            EncodeBrokenPart(Disposition("file", fname)) \o CloseDelimiter

RECURSIVE SeqsUpTo(_, _)
SeqsUpTo(S, n) ==
    IF n = 0 THEN {<<>>}
    ELSE LET shorter == SeqsUpTo(S, n - 1)
         IN  shorter \cup {Append(q, b) : q \in shorter, b \in S}

Payloads == SeqsUpTo(PayloadBytes, MaxLen)

Sent(shape, fname, payload) == [shape |-> shape, filename |-> fname, payload |-> payload]
NothingSent == Sent("none", NoName, <<>>)
NotParsed == [ok |-> FALSE, fields |-> NoFields, done |-> FALSE]
Returned(f) == [ok |-> f.ok, fields |-> f.fields, done |-> TRUE]


-----------------------------------------------------------------------------
(* The disk and the server's state.                                         *)

NoDir == -1     \* Python's None where a directory is expected
Old == 0        \* a bom_* directory an earlier run left in the temp root
Workspaces == Old..MaxWs

\* the names generate_file may give an artifact
ArtifactNames == {"ibom.html", "x.html"}

\* The bytes of an artifact are named after the workspace whose upload wrote
\* them: two uploads never write the same bytes, so a response that carries
\* the artifact of another workspace is told apart.
NoContent == NoDir

Artifact(n, c) == [name |-> n, content |-> c]
NoArtifact == Artifact(NoName, NoContent)

\* the directory has no output/ subdirectory (yet)
NoOutputDir == Artifact("<no output directory>", NoContent)

\* a workspace: the directory, where it was made, and the file in output/
Workspace(e, b, a) == [exists |-> e, base |-> b, out |-> a]
NoWorkspace == Workspace(FALSE, "none", NoArtifact)

\* a handler object is made per request: its instance dict starts empty
NewHandler == [set |-> FALSE, temp_dir |-> NoDir, output_dir |-> NoDir]

\* self.temp_dir / self.output_dir: the instance attribute if the handler
\* has set one, the class attribute otherwise
SelfTempDir(h) == IF h.set THEN h.temp_dir ELSE cls_temp_dir
SelfOutputDir(h) == IF h.set THEN h.output_dir ELSE cls_output_dir

\* os.path.splitext(file_name)[1]
Ext(fname) ==
    CASE fname \in {"a.kicad_pcb", "../e.kicad_pcb"} -> ".kicad_pcb"
      [] fname = "b.PcbDoc" -> ".PcbDoc"
      [] fname = "f.KICAD_PCB" -> ".KICAD_PCB"
      [] OTHER -> ".txt"

\* str.lower()
Lower(ext) ==
    CASE ext = ".PcbDoc" -> ".pcbdoc"
      [] ext = ".KICAD_PCB" -> ".kicad_pcb"
      [] OTHER -> ext

get_parser_by_extension(fname) ==
    IF Ext(fname) = ".kicad_pcb" THEN "kicad"
    ELSE IF Lower(Ext(fname)) \in {".pcbdoc"} THEN "altium"
    ELSE "none"

\* os.path.join(work_dir, filename) names a path outside work_dir
Escapes(fname) == fname \in {"../d.txt", "../e.kicad_pcb"}

\* names that a path join resolves to a directory: the output directory
\* itself and its parent, the workspace root
DirectoryNames == {"", ".."}

\* os.path.exists(os.path.join(<w>/output, filename)); joined with the empty
\* name the path is the output directory itself
FileExists(d, w, name) ==
    /\ w \in Workspaces
    /\ d[w].exists
    /\ d[w].out # NoOutputDir
    /\ name \in DirectoryNames \/ (d[w].out.name = name /\ name # NoName)

\* os.path.isfile of the same path
IsFile(d, w, name) == FileExists(d, w, name) /\ name \notin DirectoryNames

\* len(content): artifacts of different uploads differ in length as well
Size(c) == IF c = NoContent THEN 0 ELSE c + 1


-----------------------------------------------------------------------------
(* Requests and responses.                                                  *)

\* the request that was answered, kept with its response (uploads only)
NoRequest == [ct |-> [mime |-> "", params |-> <<>>], shape |-> "none",
              filename |-> NoName, payload |-> <<>>]

Response(kind) ==
    [kind |-> kind, request |-> NoRequest, status |-> 0, success |-> FALSE, name |-> NoName,
     body |-> NoContent, temp_dir |-> NoDir, output_dir |-> NoDir,
     ws |-> NoDir, upload |-> NoName, stages |-> {}, json |-> FALSE, error |-> "",
     length |-> 0, converted |-> "not called", output_ready |-> FALSE]

\* the upload requests a client may send
WebContentTypes ==
    { ContentType("multipart/form-data", <<Param("boundary", BoundaryToken)>>),
      ContentType("multipart/form-data", <<>>),
      ContentType("text/plain", <<>>) }
WebFileNames == {"a.kicad_pcb", "b.PcbDoc", "c.txt", "../d.txt"}
UploadRequest(ct, shape, fname) ==
    [ct |-> ct, shape |-> shape, filename |-> fname, payload |-> <<"a">>]
WellFormed == ContentType("multipart/form-data", <<Param("boundary", BoundaryToken)>>)
UploadRequests ==
    {UploadRequest(WellFormed, "file", fname) : fname \in WebFileNames}
        \cup {UploadRequest(WellFormed, shape, "a.kicad_pcb") : shape \in Shapes}
        \cup {UploadRequest(ct, "file", "a.kicad_pcb") : ct \in WebContentTypes}

\* content_type.startswith('multipart/form-data')
IsMultipart(ct) == ct.mime = "multipart/form-data"

\* the form an upload request parses to, with or without the cgi module
FormOf(r, has_cgi) ==
    IF IsMultipart(r.ct)
    THEN parse_multipart_form_data(Encode(r.shape, r.filename, r.payload), r.ct, has_cgi)
    ELSE ParseError

\* What the collaborators do in one run of process_file: the step that
\* fails (if any) and, when none fails, the artifact generate_file writes.
Outcome(f, n) == [fails |-> f, name |-> n]
\* "toolchain": _convert_to_kicad gives up before running anything (no perl,
\* no converter directory); "convert": it gives up later (a step exits
\* non-zero or times out, no output, an exception)
Failures ==
    {"import", "select", "toolchain", "convert", "parse_empty", "parse_raise", "bom",
     "generate"}
ConversionFailures == {"toolchain", "convert"}
Outcomes ==
    {Outcome(f, NoName) : f \in Failures} \cup {Outcome("none", n) : n \in ArtifactNames}

\* the outcomes that can happen with the parser chosen for the file
OutcomesFor(parser) ==
    CASE parser = "altium" -> Outcomes
      [] parser = "kicad" -> {o \in Outcomes : o.fails \notin ConversionFailures}
      [] OTHER -> {Outcome("import", NoName), Outcome("none", NoName)}

\* ibom.generate_file(work_dir, pcb_file_name, pcbdata, config, logger):
\* writes the artifact into the output directory of the workspace
generate_file(d, w, o) ==
    [v \in DOMAIN d |-> IF v = w THEN Workspace(TRUE, d[w].base, Artifact(o.name, w))
                         ELSE d[v]]

\* what _convert_to_kicad came to in this run of process_file, if it was
\* called at all (AltiumParser.parse, line 478)
Converted(fname, o) ==
    IF get_parser_by_extension(fname) # "altium" \/ o.fails \in {"import", "select"}
    THEN "not called"
    ELSE CASE o.fails = "toolchain" -> "ToolchainUnavailable"
           [] o.fails = "convert" -> "ConversionFailed"
           [] OTHER -> "converted"

\* faulty variant: parse goes on although the conversion gave nothing
ConversionNeverStops(o) == FALSE

\* AltiumParser.parse, lines 478-482: `if not converted_file: return None, None`
ConversionStops(o) == o.fails \in ConversionFailures

\* the error text of lines 336-340, returned when parse() gives no data
ParseFailureText == "Failed to parse the PCB file"

\* faulty variants of the registration: one that is lost, and one that
\* rebinds the registry to a map of the new entry alone
RegisterNothing(reg, name, w) == reg
RegisterAlone(reg, name, w) == [n \in DOMAIN reg |-> IF n = name THEN w ELSE NoDir]

\* faulty variant: a name that is registered stays where it is
RegisterFirstWins(reg, name, w) ==
    IF reg[name] # NoDir THEN reg ELSE [reg EXCEPT ![name] = w]

\* self.file_registry[bom_filename] = output_dir
Register(reg, name, w) == [reg EXCEPT ![name] = w]

\* what a run of process_file comes to: the result object (or the exception
\* on its way out), the steps tried, the disk and the registry afterwards
Result(raises, success, name, error, stages, d, reg) ==
    [raises |-> raises, success |-> success, name |-> name, error |-> error,
     stages |-> stages, disk |-> d, registry |-> reg]

\* lines 314-374, the body of the try statement of process_file
TryBody(d, reg, w, fname, o) ==
    LET parser == get_parser_by_extension(fname)
        conv == IF parser = "altium" THEN {"convert"} ELSE {}
        raise(exc, stages) == Result(exc, FALSE, NoName, "", stages, d, reg)
        return(error, stages) == Result("none", FALSE, NoName, error, stages, d, reg)
    IN  IF o.fails = "import" THEN raise("ImportError", {})
        ELSE IF parser = "none" THEN return("Unsupported file format", {})
        ELSE IF o.fails = "select" THEN raise("ImportError", {})
        ELSE IF ConversionStops(o) THEN return(ParseFailureText, conv)
        ELSE IF o.fails = "parse_empty"
            THEN return(ParseFailureText, conv \cup {"parse"})
        ELSE IF o.fails = "parse_raise" THEN raise("Exception", conv \cup {"parse"})
        ELSE IF o.fails = "bom" THEN raise("Exception", conv \cup {"parse", "bom"})
        ELSE IF o.fails = "generate"
            THEN raise("Exception", conv \cup {"parse", "bom", "generate"})
        ELSE Result("none", TRUE, o.name, "",
                    conv \cup {"parse", "bom", "generate", "register"},
                    generate_file(d, w, o), Register(reg, o.name, w))

\* faulty variant: the except clauses are missing
process_file_uncaught(d, reg, w, fname, o) == TryBody(d, reg, w, fname, o)

\* process_file, lines 311-408: the try body under its except clauses
process_file(d, reg, w, fname, o) ==
    LET b == TryBody(d, reg, w, fname, o)
    IN  CASE b.raises = "ImportError" ->
                [b EXCEPT !.raises = "none", !.error = "Import error"]
          [] b.raises = "Exception" ->
                [b EXCEPT !.raises = "none", !.error = "Error processing file"]
          [] OTHER -> b


\* the names a GET /generated/<name> may ask for
RequestNames == ArtifactNames \cup {"missing.html", ""}

\* the request paths: only the last component is used (os.path.basename)
RequestPaths == {<<"generated", n>> : n \in RequestNames}
                    \cup {<<"generated", "..", "ibom.html">>}

\* faulty variant: what follows /generated/ is used as it comes
FirstComponent(path) == path[2]

\* os.path.basename(path), line 191
Basename(path) == path[Len(path)]

\* the keys a lookup in file_registry may be made with
RegistryNames == RequestNames \cup {".."}

EmptyRegistry == [n \in RegistryNames |-> NoDir]

-----------------------------------------------------------------------------
(* The request handlers.  Each returns the response and the state it leaves. *)

After(resp, h, reg, d, out, n) ==
    [response |-> resp, handler |-> h, registry |-> reg, disk |-> d,
     outside |-> out, nextWs |-> n]

\* a request that is answered without touching anything
Rejected(kind, status) ==
    After([Response(kind) EXCEPT !.status = status],
          NewHandler, file_registry, disk, outside, nextWs)

\* lines 274-283: the workspace is made under the hinted directory when the
\* form carries a non-empty temp_dir field, under the temp root otherwise
BaseOf(f) ==
    IF "temp_dir" \in DOMAIN f.fields /\ Strip(f.fields["temp_dir"].data) # <<>>
        /\ f.fields["temp_dir"].filename = NoName
    THEN "hint" ELSE "tmp"

\* faulty variant: every upload starts from an emptied temp root
MkdtempAlone(d, w, base) ==
    [v \in DOMAIN d |-> IF v = w THEN Workspace(TRUE, base, NoOutputDir) ELSE NoWorkspace]

\* tempfile.mkdtemp(prefix='bom_'), lines 274-283: a new, empty directory
Mkdtemp(d, w, base) ==
    [v \in DOMAIN d |-> IF v = w THEN Workspace(TRUE, base, NoOutputDir) ELSE d[v]]

\* faulty variant: the output directory is left to the generator
MakedirsSkipped(d, w) == d

\* os.makedirs(self.output_dir, exist_ok=True), line 287, where
\* self.output_dir is os.path.join(work_dir, 'output')
Makedirs(d, w) ==
    IF d[w].exists /\ d[w].out = NoOutputDir
    THEN [d EXCEPT ![w] = Workspace(TRUE, d[w].base, NoArtifact)]
    ELSE d

\* faulty variant: the filename of the file field is not looked at
FilenameNeverMissing(f) == FALSE

\* `if not file_item.filename`, line 264
FilenameMissing(f) == f.fields["file"].filename = NoName

\* handle_upload, lines 244-309
handle_upload(r, o) ==
    LET f == forms[r]
        answer(a) == [a EXCEPT !.response.request = r]
    IN  answer(
        IF ~IsMultipart(r.ct) THEN Rejected("upload", 400)
        ELSE IF ~f.ok THEN Rejected("upload", 500)
        ELSE IF "file" \notin DOMAIN f.fields THEN Rejected("upload", 400)
        ELSE IF FilenameMissing(f) THEN Rejected("upload", 400)
        ELSE LET filename == f.fields["file"].filename
                 work_dir == nextWs + 1
                 h == [set |-> TRUE, temp_dir |-> work_dir, output_dir |-> work_dir]
                 made == Makedirs(Mkdtemp(disk, work_dir, BaseOf(f)), work_dir)
                 written == IF Escapes(filename) THEN outside \cup {filename} ELSE outside
                 result == process_file(made, file_registry, work_dir, filename, o)
                 sent_result == [Response("upload") EXCEPT
                                    !.status = IF result.success THEN 200 ELSE 500,
                                    !.success = result.success,
                                    !.name = result.name,
                                    !.ws = work_dir,
                                    !.upload = filename,
                                    !.stages = result.stages,
                                    !.json = TRUE,
                                    !.error = result.error,
                                    !.converted = Converted(filename, o),
                                    !.output_ready = FileExists(made, h.output_dir, "")]
                 sent_error == [Response("upload") EXCEPT
                                    !.status = 500,
                                    !.ws = work_dir,
                                    !.upload = filename,
                                    !.stages = result.stages,
                                    !.output_ready = FileExists(made, h.output_dir, "")]
             IN  After(IF result.raises = "none" THEN sent_result ELSE sent_error,
                       h, result.registry, result.disk, written, work_dir))

\* lines 200-213: the bom_* directories of the temp root that hold the file
ScanHits(d, name) ==
    {w \in Workspaces : d[w].base = "tmp" /\ FileExists(d, w, name)}

\* faulty variant: any existing path is served
ServableIfExists(d, dir, name) == dir # NoDir /\ FileExists(d, dir, name)

\* lines 215-221: a directory was found and the path in it is a regular file
Servable(d, dir, name) ==
    dir # NoDir /\ FileExists(d, dir, name) /\ IsFile(d, dir, name)

\* serve_generated_file, lines 189-230; `hit` is the directory the scan of the
\* temp root comes upon first (os.listdir gives no order), NoDir if none
serve_generated_file(path, hit) ==
    LET filename == Basename(path)
        h == NewHandler
        found == IF file_registry[filename] # NoDir THEN file_registry[filename]
                 ELSE SelfOutputDir(h)
        scans == found = NoDir \/ ~FileExists(disk, found, filename)
        output_dir == IF scans /\ hit # NoDir THEN hit ELSE found
        reg == IF scans /\ hit # NoDir THEN Register(file_registry, filename, hit)
               ELSE file_registry
        resp == IF Servable(disk, output_dir, filename)
                THEN [Response("get") EXCEPT
                        !.status = 200, !.name = filename,
                        !.body = disk[output_dir].out.content,
                        !.length = Size(disk[output_dir].out.content)]
                ELSE [Response("get") EXCEPT !.status = 404, !.name = filename]
    IN  After(resp, h, reg, disk, outside, nextWs)

\* serve_status, lines 232-242
serve_status ==
    LET h == NewHandler
    IN  After([Response("status") EXCEPT !.status = 200, !.json = TRUE,
                                         !.temp_dir = SelfTempDir(h),
                                         !.output_dir = SelfOutputDir(h)],
              h, file_registry, disk, outside, nextWs)

\* shutil.rmtree(self.temp_dir)
Rmtree(d, w) == [d EXCEPT ![w] = Workspace(FALSE, d[w].base, NoArtifact)]

\* faulty variant: a cleanup forgets what was registered
CleanupEvicts(reg) == [n \in DOMAIN reg |-> NoDir]

\* handle_cleanup does not touch self.file_registry (lines 410-423)
CleanupKeeps(reg) == reg

\* handle_cleanup, lines 410-423
handle_cleanup ==
    LET h == NewHandler
        temp_dir == SelfTempDir(h)
        resp == [Response("cleanup") EXCEPT !.status = 200, !.success = TRUE, !.json = TRUE,
                                            !.ws = session]
    IN  IF temp_dir # NoDir /\ disk[temp_dir].exists
        THEN After(resp, [set |-> TRUE, temp_dir |-> NoDir, output_dir |-> NoDir],
                   CleanupKeeps(file_registry), Rmtree(disk, temp_dir), outside, nextWs)
        ELSE After(resp, h, CleanupKeeps(file_registry), disk, outside, nextWs)


-----------------------------------------------------------------------------
(* The converter: AltiumParser._convert_to_kicad and what it calls.         *)

None == "None"

\* the places _find_altium2kicad looks at, in the order it looks (lines 88-208)
Locations ==
    <<"repo", "path", "home", "home_github", "usr_local_share", "opt",
      "pcb_dir", "pcb_dir_sub",
      "parent1", "parent1_sub", "parent2", "parent2_sub", "parent3", "parent3_sub">>
LocationSet == {Locations[i] : i \in DOMAIN Locations}

\* the loop of lines 186-208 stops at the root: with n parent directories
\* it looks at the first n parents only
Searched(n) == {Locations[i] : i \in 1..(8 + 2 * n)}

\* faulty variant: a probe that times out counts as an interpreter
check_perl_unbounded(p) == p \in {"zero", "timeout"}

\* _check_perl, lines 36-58: True only when `perl --version` exits with 0
\* within its 5 s; TimeoutExpired is caught and gives False
check_perl(p) == p = "zero"

\* _find_altium2kicad, lines 62-212
find_altium2kicad(p, have, n) ==
    IF ~check_perl(p) THEN None
    ELSE LET hits == {i \in DOMAIN Locations :
                        Locations[i] \in have /\ Locations[i] \in Searched(n)}
         IN  IF hits = {} THEN None ELSE Locations[Min(hits)]

\* the programs _find_altium2kicad runs: `which` only past the bundled copy
FindCalls(p, have) ==
    IF ~check_perl(p) THEN <<"perl --version">>
    ELSE IF "repo" \in have THEN <<"perl --version">>
    ELSE <<"perl --version", "which altium2kicad">>

\* what _find_altium2kicad logs (lines 76-82)
FindLogs(p) == IF check_perl(p) THEN <<>> ELSE <<"perl required">>

\* lines 270-272: the converted file exists and is not older than the source
CacheValid(conv, src) == conv # 0 /\ conv >= src

\* faulty variant: the result of the search is not looked at
ConverterNeverMissing(dir) == FALSE

\* `if not converter_dir`, line 228
ConverterMissing(dir) == dir = None

\* how a subprocess.run of a toolchain step can end
RunResults == {"zero", "nonzero", "timeout", "error"}

convVars == <<perl, scripts, ancestors, unpack_pl, src_mtime, conv_mtime, had_cache,
              pc, converter_dir, scratch, cwd, pending, conv_result, calls, fs_ops, logged>>
convEnv == <<perl, scripts, ancestors, unpack_pl, src_mtime, had_cache>>

\* no conversion is under inspection
ConvIdle ==
    /\ perl = "zero"
    /\ scripts = {}
    /\ ancestors = 0
    /\ unpack_pl = FALSE
    /\ src_mtime = 1
    /\ conv_mtime = 0
    /\ had_cache = FALSE
    /\ pc = "idle"
    /\ converter_dir = None
    /\ scratch = FALSE
    /\ cwd = "original"
    /\ pending = "none"
    /\ conv_result = "none"
    /\ calls = <<>>
    /\ fs_ops = <<>>
    /\ logged = <<>>

-----------------------------------------------------------------------------
(* State of the three specifications.                                       *)

parseVars == <<sent, post_data, content_type, form>>
webVars == <<forms, file_registry, cls_temp_dir, cls_output_dir, handler, disk, outside,
             nextWs, response, session, uploads>>
vars == <<HAS_CGI, parseVars, webVars, convVars>>

\* history of one artifact name: the workspace of the latest successful
\* upload that returned it, the cleanup requests handled since: "none",
\* "own" (one came while that workspace was the session), "other", and the
\* workspaces of the uploads that returned the name before, as far back as
\* the last cleanup request
UploadOf(w, c, e) == [ws |-> w, cleanup |-> c, earlier |-> e]
NoUpload == UploadOf(NoDir, "none", {})

\* the history of a name once the upload into workspace w has returned it
Supersede(u, w) ==
    UploadOf(w, "none",
             IF u.ws # NoDir /\ u.cleanup = "none" THEN u.earlier \cup {u.ws} ELSE u.earlier)

\* no request body is under inspection
ParseIdle ==
    /\ sent = NothingSent
    /\ post_data = <<>>
    /\ content_type = ContentType("multipart/form-data", <<>>)
    /\ form = NotParsed

\* the server as the class body of BOMHandler leaves it (lines 145-148)
WebInit ==
    /\ file_registry = EmptyRegistry
    /\ cls_temp_dir = NoDir
    /\ cls_output_dir = NoDir
    /\ handler = NewHandler
    /\ outside = {}
    /\ nextWs = 0
    /\ response = Response("none")
    /\ session = NoDir
    /\ uploads = [n \in ArtifactNames |-> NoUpload]

\* what an earlier run of the server may have left in the temp root
Leftovers == {NoWorkspace, Workspace(TRUE, "tmp", Artifact("ibom.html", Old))}

-----------------------------------------------------------------------------
(* SpecParse: the wire parser on one request body.                          *)

InitParse ==
    /\ HAS_CGI \in BOOLEAN
    /\ \E shape \in Shapes, fname \in FileNames, payload \in Payloads :
          /\ sent = Sent(shape, fname, payload)
          /\ post_data = Encode(shape, fname, payload)
    /\ content_type \in ContentTypes
    /\ form = NotParsed
    /\ WebInit
    /\ forms = <<>>
    /\ disk = [w \in Workspaces |-> NoWorkspace]
    /\ ConvIdle

ParseRequest ==
    /\ ~form.done
    /\ form' = Returned(parse_multipart_form_data(post_data, content_type, HAS_CGI))
    /\ UNCHANGED <<HAS_CGI, sent, post_data, content_type, webVars, convVars>>

NextParse == ParseRequest

SpecParse == InitParse /\ [][NextParse]_vars

-----------------------------------------------------------------------------
(* Spec: the server, one request after another (HTTPServer is not threaded). *)

Init ==
    /\ HAS_CGI \in BOOLEAN
    /\ ParseIdle
    /\ ConvIdle
    /\ WebInit
    /\ forms = [r \in UploadRequests |-> FormOf(r, HAS_CGI)]
    /\ \E old \in Leftovers :
          disk = [w \in Workspaces |-> IF w = Old THEN old ELSE NoWorkspace]

Apply(a) ==
    /\ response' = a.response
    /\ handler' = a.handler
    /\ file_registry' = a.registry
    /\ disk' = a.disk
    /\ outside' = a.outside
    /\ nextWs' = a.nextWs
    /\ UNCHANGED <<HAS_CGI, parseVars, convVars, forms, cls_temp_dir, cls_output_dir>>

\* the request gets as far as process_file (lines 247-266 let it pass)
Reaches(r) ==
    LET f == forms[r]
    IN  /\ IsMultipart(r.ct)
        /\ f.ok
        /\ "file" \in DOMAIN f.fields
        /\ f.fields["file"].filename # NoName

\* POST /upload; the collaborators have their say only when they are called
Upload ==
    \E r \in UploadRequests :
      /\ Reaches(r) => nextWs < MaxWs
      /\ \E o \in (IF Reaches(r) THEN OutcomesFor(get_parser_by_extension(r.filename))
                    ELSE {Outcome("none", NoName)}) :
        LET a == handle_upload(r, o)
        IN  /\ Apply(a)
            /\ session' = IF a.response.ws # NoDir THEN a.response.ws ELSE session
            /\ uploads' = IF a.response.success
                          THEN [uploads EXCEPT ![a.response.name] =
                                    Supersede(uploads[a.response.name], a.response.ws)]
                          ELSE uploads

\* GET /generated/<name>
Get ==
    \E path \in RequestPaths :
      \E hit \in (IF ScanHits(disk, Basename(path)) = {} THEN {NoDir}
                  ELSE ScanHits(disk, Basename(path))) :
        /\ Apply(serve_generated_file(path, hit))
        /\ UNCHANGED <<session, uploads>>

\* GET /status
Status ==
    /\ Apply(serve_status)
    /\ UNCHANGED <<session, uploads>>

\* POST /cleanup
Cleanup ==
    /\ Apply(handle_cleanup)
    /\ session' = NoDir
    /\ uploads' = [n \in ArtifactNames |->
                     IF uploads[n].ws = NoDir THEN uploads[n]
                     ELSE UploadOf(uploads[n].ws,
                                   IF uploads[n].cleanup = "own" \/ uploads[n].ws = session
                                   THEN "own" ELSE "other",
                                   {})]

\* the leftover directory of an earlier run is removed from the temp root
\* by someone else (a temp cleaner, the user)
Reap ==
    /\ disk[Old].exists
    /\ disk' = [disk EXCEPT ![Old] = NoWorkspace]
    /\ UNCHANGED <<HAS_CGI, parseVars, convVars, forms, file_registry, cls_temp_dir,
                   cls_output_dir, handler, outside, nextWs, response, session, uploads>>

Next == Upload \/ Get \/ Status \/ Cleanup \/ Reap

Spec == Init /\ [][Next]_vars


-----------------------------------------------------------------------------
(* SpecConv: one call of _convert_to_kicad on a .PcbDoc source file.        *)

\* the sets of locations that may hold the toolchain
ScriptSets == {S \in SUBSET LocationSet : Cardinality(S) <= MaxScripts}

InitConv ==
    /\ HAS_CGI = FALSE
    /\ ParseIdle
    /\ WebInit
    /\ forms = <<>>
    /\ disk = [w \in Workspaces |-> NoWorkspace]
    /\ perl \in {"zero", "nonzero", "timeout"}
    /\ scripts \in ScriptSets
    /\ ancestors \in {2, 3}
    /\ unpack_pl \in BOOLEAN
    /\ src_mtime \in 1..MaxMtime
    /\ conv_mtime \in 0..MaxMtime
    /\ had_cache = CacheValid(conv_mtime, src_mtime)
    /\ pc = "find"
    /\ converter_dir = None
    /\ scratch = FALSE
    /\ cwd = "original"
    /\ pending = "none"
    /\ conv_result = "none"
    /\ calls = <<>>
    /\ fs_ops = <<>>
    /\ logged = <<>>

ConvStep == UNCHANGED <<HAS_CGI, parseVars, webVars, convEnv>>

\* return <value> from _convert_to_kicad with no try block open
Return(value) ==
    /\ pc' = "done"
    /\ conv_result' = value
    /\ UNCHANGED pending

\* lines 226-254: locate the toolchain, give up when there is none
FindConverter ==
    /\ pc = "find"
    /\ LET dir == find_altium2kicad(perl, scripts, ancestors)
       IN  /\ converter_dir' = dir
           /\ calls' = calls \o FindCalls(perl, scripts)
           /\ IF ConverterMissing(dir)
              THEN /\ logged' = logged \o FindLogs(perl) \o <<"converter not found">>
                   /\ Return(None)
              ELSE /\ logged' = logged \o FindLogs(perl)
                   /\ pc' = "cache"
                   /\ UNCHANGED <<conv_result, pending>>
    /\ UNCHANGED <<conv_mtime, scratch, cwd, fs_ops>>
    /\ ConvStep

\* lines 258-278: reuse a converted file that is not older than the source
CheckCache ==
    /\ pc = "cache"
    /\ IF CacheValid(conv_mtime, src_mtime)
       THEN Return("converted_file")
       ELSE pc' = "mkdtemp" /\ UNCHANGED <<conv_result, pending>>
    /\ UNCHANGED <<conv_mtime, converter_dir, scratch, cwd, calls, fs_ops, logged>>
    /\ ConvStep

\* line 290: tempfile.mkdtemp(prefix='altium2kicad_'), outside the try block
MakeTempDir ==
    /\ pc = "mkdtemp"
    /\ \E ok \in BOOLEAN :
          IF ok
          THEN /\ scratch' = TRUE
               /\ fs_ops' = Append(fs_ops, "mkdtemp")
               /\ pc' = "copy"
               /\ UNCHANGED <<conv_result, pending>>
          ELSE /\ pc' = "done"
               /\ conv_result' = "raised"
               /\ UNCHANGED <<scratch, fs_ops, pending>>
    /\ UNCHANGED <<conv_mtime, converter_dir, cwd, calls, logged>>
    /\ ConvStep

\* an exit from inside the try blocks: a return value or an exception on its
\* way out through the finally clauses
Leave(how, at) ==
    /\ pending' = how
    /\ pc' = at
    /\ UNCHANGED conv_result

Continue(at) ==
    /\ pc' = at
    /\ UNCHANGED <<pending, conv_result>>

\* faulty variant: an exception leaves the inner block without the restoring
\* chdir
InnerExitUnprotected(how) ==
    IF how \in {"TimeoutExpired", "Exception"} THEN "rmtree" ELSE "restore"

\* lines 306-438: every way out of the inner try block, a return as well as
\* an exception, passes through its finally clause
InnerExit(how) == "restore"

\* lines 294-298: shutil.copy2(pcb_file, temp_pcb)
CopySource ==
    /\ pc = "copy"
    /\ \E ok \in BOOLEAN :
          IF ok
          THEN fs_ops' = Append(fs_ops, "copy source") /\ Continue("chdir")
          ELSE UNCHANGED fs_ops /\ Leave("Exception", "rmtree")
    /\ UNCHANGED <<conv_mtime, converter_dir, scratch, cwd, calls, logged>>
    /\ ConvStep

\* lines 304-308: original_cwd = os.getcwd(); os.chdir(temp_dir)
EnterTempDir ==
    /\ pc = "chdir"
    /\ \E ok \in BOOLEAN :
          IF ok
          THEN /\ cwd' = "scratch"
               /\ fs_ops' = Append(fs_ops, "chdir scratch")
               /\ Continue("unpack")
          ELSE /\ UNCHANGED <<cwd, fs_ops>>
               /\ Leave("Exception", InnerExit("Exception"))
    /\ UNCHANGED <<conv_mtime, converter_dir, scratch, calls, logged>>
    /\ ConvStep

\* how a subprocess.run of a toolchain step ended, as the history keeps it
Ended(r) ==
    CASE r = "zero" -> "exit 0"
      [] r = "nonzero" -> "exit nonzero"
      [] OTHER -> r

\* faulty variant: the return code of the step is not looked at
StepAlwaysPasses(r) == TRUE

\* `if result.returncode != 0: ... return None`, lines 340 and 378
StepPasses(r) == r = "zero"

\* one toolchain step: the script must exist, then subprocess.run decides;
\* it raises TimeoutExpired past its timeout and OSError when perl cannot
\* be started
RunScript(script, exists, failure, next) ==
    IF ~exists
    THEN /\ logged' = Append(logged, script \o " not found")
         /\ UNCHANGED calls
         /\ Leave("return None", InnerExit("return None"))
    ELSE \E r \in RunResults :
            /\ calls' = calls \o <<script, Ended(r)>>
            /\ CASE r = "timeout" ->
                      UNCHANGED logged /\ Leave("TimeoutExpired", InnerExit("TimeoutExpired"))
                 [] r = "error" ->
                      UNCHANGED logged /\ Leave("Exception", InnerExit("Exception"))
                 [] OTHER ->
                      IF StepPasses(r)
                      THEN UNCHANGED logged /\ Continue(next)
                      ELSE /\ logged' = Append(logged, failure)
                           /\ Leave("return None", InnerExit("return None"))

\* lines 312-346: perl unpack.pl, at most 60 s
RunUnpack ==
    /\ pc = "unpack"
    /\ RunScript("unpack.pl", unpack_pl, "unpack.pl failed", "convert")
    /\ UNCHANGED <<conv_mtime, converter_dir, scratch, cwd, fs_ops>>
    /\ ConvStep

\* lines 350-388: perl convertpcb.pl, at most 120 s
RunConvert ==
    /\ pc = "convert"
    /\ RunScript("convertpcb.pl", TRUE, "convertpcb.pl failed", "collect")
    /\ UNCHANGED <<conv_mtime, converter_dir, scratch, cwd, fs_ops>>
    /\ ConvStep

\* lines 392-432: find the converted file in the scratch directory and copy
\* it beside the source
CollectOutput ==
    /\ pc = "collect"
    /\ \E found \in {"named", "other", "none"}, ok \in BOOLEAN, m \in src_mtime..MaxMtime :
          CASE found = "none" ->
                  /\ logged' = Append(logged, "converted file not found")
                  /\ UNCHANGED <<fs_ops, conv_mtime>>
                  /\ Leave("return None", InnerExit("return None"))
            [] found # "none" /\ ok ->
                  /\ fs_ops' = Append(fs_ops, "copy converted")
                  /\ conv_mtime' = m
                  /\ UNCHANGED logged
                  /\ Leave("return converted_file", InnerExit("return converted_file"))
            [] OTHER ->
                  /\ UNCHANGED <<fs_ops, conv_mtime, logged>>
                  /\ Leave("Exception", InnerExit("Exception"))
    /\ UNCHANGED <<converter_dir, scratch, cwd, calls>>
    /\ ConvStep

\* faulty variant: an exception of the restoring chdir leaves the function
\* past the clean-up
AfterRestoreUnprotected(ok) == IF ok THEN "rmtree" ELSE "done"

\* lines 436-464: the inner finally lies inside the outer try, so control
\* comes to the outer finally whether or not os.chdir(original_cwd) raised
AfterRestore(ok) == "rmtree"

\* lines 436-438, the inner finally: os.chdir(original_cwd); when it raises,
\* its exception replaces whatever was on the way out
RestoreCwd ==
    /\ pc = "restore"
    /\ \E ok \in BOOLEAN :
          IF ok
          THEN /\ cwd' = "original"
               /\ fs_ops' = Append(fs_ops, "chdir original")
               /\ Continue(AfterRestore(ok))
          ELSE /\ UNCHANGED cwd
               /\ fs_ops' = Append(fs_ops, "chdir original failed")
               /\ Leave("Exception", AfterRestore(ok))
    /\ UNCHANGED <<conv_mtime, converter_dir, scratch, calls, logged>>
    /\ ConvStep

\* lines 442-464: the except clauses turn an exception into `return None`,
\* then the outer finally removes the scratch directory; an error of
\* shutil.rmtree is swallowed and leaves the directory behind
RemoveTempDir ==
    /\ pc = "rmtree"
    /\ logged' = CASE pending = "TimeoutExpired" -> Append(logged, "Conversion timed out")
                   [] pending = "Exception" -> Append(logged, "Conversion failed")
                   [] OTHER -> logged
    /\ conv_result' = IF pending = "return converted_file" THEN "converted_file" ELSE None
    /\ \E ok \in BOOLEAN :
          IF ok
          THEN scratch' = FALSE /\ fs_ops' = Append(fs_ops, "rmtree")
          ELSE UNCHANGED scratch /\ fs_ops' = Append(fs_ops, "rmtree failed")
    /\ pc' = "done"
    /\ pending' = "none"
    /\ UNCHANGED <<conv_mtime, converter_dir, cwd, calls>>
    /\ ConvStep

NextConv ==
    \/ FindConverter
    \/ CheckCache
    \/ MakeTempDir
    \/ CopySource
    \/ EnterTempDir
    \/ RunUnpack
    \/ RunConvert
    \/ CollectOutput
    \/ RestoreCwd
    \/ RemoveTempDir

SpecConv == InitConv /\ [][NextConv]_vars

-----------------------------------------------------------------------------
(* Claims about the wire parser (checked under SpecParse).                  *)

\* C6: for a valid body with one file part named "file", sent under a
\* content type that carries its boundary, the parser's "file" field holds
\* exactly the payload bytes and the filename that were sent, whatever the
\* payload ends with.
C6_PayloadRecovered ==
    (form.done /\ sent.shape \in ValidShapes /\ HasBoundaryParam(content_type))
        => /\ form.ok
           /\ "file" \in DOMAIN form.fields
           /\ form.fields["file"].data = sent.payload
           /\ form.fields["file"].filename = sent.filename

\* C7: when the content type carries no boundary parameter the parser fails
\* and returns no field set.
C7_NoBoundaryFails ==
    (form.done /\ ~HasBoundaryParam(content_type)) => ~form.ok

-----------------------------------------------------------------------------
(* Claims about the converter (checked under SpecConv).                     *)

ToolchainRun == \E i \in DOMAIN calls : calls[i] \in {"unpack.pl", "convertpcb.pl"}
ScratchMade == \E i \in DOMAIN fs_ops : fs_ops[i] = "mkdtemp"

\* C4: when the converted counterpart exists and is not older than the
\* source, the conversion runs neither unpack nor convert, makes no scratch
\* directory and returns the existing converted file, whatever the state of
\* the interpreter and of the search locations.
C4_CacheBeforeToolchain ==
    (pc = "done" /\ had_cache)
        => conv_result = "converted_file" /\ ~ToolchainRun /\ ~ScratchMade

\* C5: with no valid converted counterpart and no search location holding
\* the entry-point script, the conversion returns a failure, makes no
\* scratch directory and changes nothing on disk.
C5_NoToolchainNoMutation ==
    (pc = "done" /\ ~had_cache /\ scripts \cap Searched(ancestors) = {})
        => conv_result = None /\ ~ScratchMade /\ fs_ops = <<>> /\ ~scratch

\* such a conversion has returned, with a working interpreter
C5_Witness ==
    /\ pc = "done"
    /\ ~had_cache
    /\ scripts \cap Searched(ancestors) = {}
    /\ check_perl(perl)
    /\ conv_result = None

-----------------------------------------------------------------------------
(* Claims about the server (checked under Spec).                            *)

\* the last request was a GET for a name some successful upload returned
GotUploaded ==
    /\ response.kind = "get"
    /\ response.name \in ArtifactNames
    /\ uploads[response.name].ws # NoDir

\* the uploads that returned the requested name and saw no cleanup since
Uncleaned ==
    LET u == uploads[response.name]
    IN  u.earlier \cup (IF u.cleanup = "none" THEN {u.ws} ELSE {})

\* C1 as stated: after a successful upload returned F, a GET /generated/F
\* with no cleanup request in between responds 200 and its body is the
\* content of the artifact that upload wrote to disk, for every such upload.
C1_EveryUploadServed ==
    GotUploaded
        => \A w \in Uncleaned :
              /\ response.status = 200
              /\ disk[w].exists
              /\ disk[w].out.name = response.name
              /\ response.body = disk[w].out.content

\* C1, amended: after a successful upload returned F, a GET /generated/F with
\* no cleanup request and no later successful upload returning F in between
\* responds 200 and its body is the content of the artifact that upload
\* wrote to disk.
C1_ServedAfterUpload ==
    (GotUploaded /\ uploads[response.name].cleanup = "none")
        => LET w == uploads[response.name].ws
           IN  /\ response.status = 200
               /\ disk[w].exists
               /\ disk[w].out.name = response.name
               /\ response.body = disk[w].out.content

\* a GET for an uploaded artifact was answered with no cleanup before it,
\* and an artifact of the same name lies in another workspace of the temp root
C1_Witness ==
    /\ GotUploaded
    /\ uploads[response.name].cleanup = "none"
    /\ response.status = 200
    /\ \E w \in Workspaces \ {uploads[response.name].ws} :
          FileExists(disk, w, response.name)

\* C2: after a successful upload returned F and a cleanup request was handled
\* for that upload's session, GET /generated/F responds 404.
C2_NotFoundAfterCleanup ==
    (GotUploaded /\ uploads[response.name].cleanup = "own") => response.status = 404

\* C3: a cleanup request handled after an upload created workspace W removes
\* W from disk, leaves temp_dir and output_dir empty and answers 200 with
\* success; and a workspace leaves the disk only in a cleanup request.
C3_CleanupDeletes ==
    [][/\ (response'.kind = "cleanup" /\ response'.ws # NoDir)
            => /\ ~disk'[response'.ws].exists
               /\ handler'.temp_dir = NoDir /\ cls_temp_dir' = NoDir
               /\ handler'.output_dir = NoDir /\ cls_output_dir' = NoDir
               /\ response'.status = 200
               /\ response'.success
       /\ \A w \in Workspaces \ {Old} :
            disk[w].exists /\ ~disk'[w].exists => response'.kind = "cleanup"]_vars

\* the upload of the last request reached process_file with a file whose
\* extension has no parser
UnsupportedUpload(resp) ==
    /\ resp.kind = "upload"
    /\ resp.upload # NoName
    /\ get_parser_by_extension(resp.upload) = "none"

\* C8: an upload whose extension is neither .kicad_pcb nor .pcbdoc yields
\* success false, tries no conversion, parsing or generation, adds no
\* registry entry and creates nothing outside its own workspace directory.
C8_UnsupportedFormat ==
    [][UnsupportedUpload(response') /\ response'.ws = nextWs'
          => /\ ~response'.success
             /\ response'.stages = {}
             /\ file_registry' = file_registry
             /\ outside' = outside
             /\ \A w \in Workspaces \ {response'.ws} : disk'[w] = disk[w]]_vars

\* C9: the names registered by uploads all resolve, each to the output
\* directory of the upload that registered it last.
C9_RegistryKeepsUploads ==
    \A n \in ArtifactNames :
        uploads[n].ws # NoDir => file_registry[n] = uploads[n].ws

\* two uploads registered two distinct names from two workspaces
C9_Witness ==
    \E n, m \in ArtifactNames :
        /\ n # m
        /\ uploads[n].ws # NoDir /\ uploads[m].ws # NoDir
        /\ uploads[n].ws # uploads[m].ws
        /\ response.kind = "upload" /\ response.success

\* C10: after an upload created workspace W, GET /status reports
\* temp_dir = W and output_dir = W/output until a cleanup clears them.
C10_StatusReflectsSession ==
    (response.kind = "status" /\ session # NoDir)
        => response.temp_dir = session /\ response.output_dir = session


\* the last request was an upload that reached process_file
Processed(resp) == resp.kind = "upload" /\ resp.upload # NoName

\* C11: whichever step of process_file fails, the fault does not leave it:
\* the upload is answered with a JSON result object that has success false
\* and an error message.
C11_FaultsBecomeResults ==
    (Processed(response) /\ ~response.success)
        => /\ response.json
           /\ response.error # ""
           /\ response.status = 500

\* an exception of the artifact generation, the last step before the
\* registration, was answered that way
C11_Witness ==
    /\ Processed(response)
    /\ "generate" \in response.stages /\ "register" \notin response.stages
    /\ response.json /\ ~response.success
    /\ response.error = "Error processing file"

\* what C12 says of the answer to a GET, on the disk the request saw
GetAnswered ==
    response.kind = "get"
        => /\ response.status \in {200, 404}
           /\ (\A w \in Workspaces : ~IsFile(disk, w, response.name))
                 => response.status = 404
           /\ (file_registry[response.name] # NoDir
                 /\ \A w \in Workspaces :
                       disk[w].base = "tmp" \/ w = file_registry[response.name]
                          => ~IsFile(disk, w, response.name))
                 => response.status = 404
           /\ response.status = 200
                 => /\ \E w \in Workspaces :
                          /\ IsFile(disk, w, response.name)
                          /\ response.body = disk[w].out.content
                    /\ response.length = Size(response.body)

\* C12: a GET /generated/<name> answers 404 whenever, after the resolution,
\* no directory is found or the path in it is not a regular file on disk, so
\* in particular whenever no workspace holds the name as a regular file; it
\* answers 200 only with the bytes of such a file, and then the
\* Content-length it sends is the number of those bytes.  (A step that
\* leaves the disk alone is a request; the disk changes after the answer
\* only when a leftover directory is removed.)
C12_NotFoundOrExactLength == [][disk' = disk => GetAnswered']_vars

\* the name was resolved to a directory, by the registry, but what is there
\* is not a regular file (any more): the answer was 404
C12_Witness ==
    /\ response.kind = "get"
    /\ response.status = 404
    /\ file_registry[response.name] # NoDir
    /\ ~IsFile(disk, file_registry[response.name], response.name)

\* the multipart framing of an upload request is malformed: the content
\* type names no boundary, or a part has no blank line after its headers
Malformed(r) ==
    /\ IsMultipart(r.ct)
    /\ ~HasBoundaryParam(r.ct) \/ r.shape = "nosplit"

\* C13: an upload with malformed multipart framing is answered with status
\* 400 and no workspace is created for it.
C13_MalformedIs400 ==
    (response.kind = "upload" /\ Malformed(response.request))
        => response.status = 400 /\ response.ws = NoDir

\* the form of an upload request was parsed and has no "file" field, or a
\* "file" field without a filename
NoFileIn(r) ==
    /\ r.shape # "none"
    /\ forms[r].ok
    /\ "file" \notin DOMAIN forms[r].fields \/ forms[r].fields["file"].filename = NoName

\* C14: an upload whose form has no "file" field, or a "file" field with no
\* filename, is answered 400; no workspace directory is created and the
\* registry and the session fields stay as they were.  (The leftover
\* directory changes only in a step that is not a request.)
C14_NoFileIs400 ==
    [][(response'.kind = "upload" /\ NoFileIn(response'.request) /\ disk'[Old] = disk[Old])
          => /\ response'.status = 400
             /\ response'.ws = NoDir
             /\ disk' = disk /\ nextWs' = nextWs
             /\ file_registry' = file_registry
             /\ cls_temp_dir' = cls_temp_dir /\ cls_output_dir' = cls_output_dir
             /\ ~handler'.set]_vars

\* a "file" field without a filename was answered 400 while an earlier
\* upload had its workspace and registry entry
C14_Witness ==
    /\ response.kind = "upload"
    /\ response.request.shape = "nofilename"
    /\ "file" \in DOMAIN forms[response.request].fields
    /\ response.status = 400
    /\ nextWs > 0
    /\ \E n \in ArtifactNames : file_registry[n] # NoDir


-----------------------------------------------------------------------------
(* Resolution order of GET /generated/<name>.                               *)

\* the step of the documented order that resolves the name in a given state:
\* the registry entry, else the output directory of the most recent upload
\* when the path exists there, else the scan of the temp root
ResolvingStep(reg, sess, d, name) ==
    IF reg[name] # NoDir /\ FileExists(d, reg[name], name) THEN "registry"
    ELSE IF sess # NoDir /\ FileExists(d, sess, name) THEN "session"
    ELSE "scan"

\* the answer comes from directory dir and the registry is left alone
AnsweredFrom(dir, resp, reg_before, reg_after, d) ==
    /\ reg_after = reg_before
    /\ resp.status = 200 <=> Servable(d, dir, resp.name)
    /\ resp.status = 200 => resp.body = d[dir].out.content

\* the answer comes from a hit of the scan, which the registry records
AnsweredByScan(resp, reg_before, reg_after, d) ==
    IF ScanHits(d, resp.name) = {}
    THEN reg_after = reg_before /\ resp.status = 404
    ELSE /\ reg_after[resp.name] \in ScanHits(d, resp.name)
         /\ \A n \in DOMAIN reg_after :
               n # resp.name => reg_after[n] = reg_before[n]
         /\ AnsweredFrom(reg_after[resp.name], resp, reg_after, reg_after, d)

\* C15: a GET /generated/<name> resolves the name by the registry entry; when
\* that fails, by the output directory of the most recently processed upload
\* if the path exists there; and only when both fail by a scan of the temp
\* root for bom_* directories, whose hit is recorded in the registry.
C15_ResolutionOrder ==
    [][(response'.kind = "get" /\ disk' = disk)
         => CASE ResolvingStep(file_registry, session, disk, response'.name) = "registry"
                   -> AnsweredFrom(file_registry[response'.name], response',
                                   file_registry, file_registry', disk)
              [] ResolvingStep(file_registry, session, disk, response'.name) = "session"
                   -> AnsweredFrom(session, response', file_registry, file_registry', disk)
              [] OTHER
                   -> AnsweredByScan(response', file_registry, file_registry', disk)]_vars


-----------------------------------------------------------------------------
(* The scratch directory and the working directory of a conversion.         *)

\* the conversion has returned (or raised) after making a scratch directory
ReturnedWithScratch == pc = "done" /\ ScratchMade

\* the shutil.rmtree calls of the attempt, failed ones included
RmtreeCalls == {i \in DOMAIN fs_ops : fs_ops[i] \in {"rmtree", "rmtree failed"}}

RestoreFailed == \E i \in DOMAIN fs_ops : fs_ops[i] = "chdir original failed"

\* the part of the attempt between the chdir into the scratch directory and
\* the restoring chdir: unpack, convert, and the collection of the output
InScratchSteps == {"unpack", "convert", "collect", "restore"}

-----------------------------------------------------------------------------
(* The two toolchain steps of a conversion.                                 *)

\* the places in the history where a program was run
Runs(script) == {i \in DOMAIN calls : calls[i] = script}

\* a toolchain step of the attempt exited with a non-zero code
StepFailed == \E i \in DOMAIN calls : calls[i] = "exit nonzero"

\* the converted file was copied beside the source
CopiedOut == \E i \in DOMAIN fs_ops : fs_ops[i] = "copy converted"

\* C18: within one conversion attempt unpack.pl and convertpcb.pl are each
\* run at most once, convertpcb.pl only right after unpack.pl exited with
\* code zero, and after a non-zero exit of either no further program is run,
\* no converted file is copied beside the source, and the attempt returns
\* None.
C18_StepsOnceInOrder ==
    /\ Cardinality(Runs("unpack.pl")) <= 1
    /\ Cardinality(Runs("convertpcb.pl")) <= 1
    /\ \A i \in Runs("convertpcb.pl") :
          i > 2 /\ calls[i - 2] = "unpack.pl" /\ calls[i - 1] = "exit 0"
    /\ StepFailed
          => /\ calls[Len(calls)] = "exit nonzero"
             /\ ~CopiedOut
             /\ pc \in {"restore", "rmtree", "done"}
             /\ pc = "done" => conv_result = None

\* unpack.pl exited zero, convertpcb.pl then exited non-zero, and the
\* attempt returned None
C18_Witness ==
    /\ pc = "done"
    /\ conv_result = None
    /\ Runs("unpack.pl") # {} /\ Runs("convertpcb.pl") # {}
    /\ calls[Len(calls)] = "exit nonzero"


-----------------------------------------------------------------------------
(* Timeouts of the external programs.                                       *)

\* a toolchain step of the attempt ran into its timeout
StepTimedOut == \E i \in DOMAIN calls : calls[i] = "timeout"

Logged(msg) == \E i \in DOMAIN logged : logged[i] = msg

\* C19: the probe `perl --version`, unpack.pl and convertpcb.pl are run with
\* a timeout, so each run ends.  A probe that times out makes the
\* interpreter unavailable: the conversion returns None having run nothing
\* else.  After a timeout of unpack.pl or convertpcb.pl no further program
\* is run (no next step, no second try), nothing is copied beside the
\* source, and the attempt returns None.
C19_TimeoutsEndTheAttempt ==
    /\ perl = "timeout" /\ pc # "find"
          => /\ pc = "done"
             /\ conv_result = None
             /\ converter_dir = None
             /\ calls = <<"perl --version">>
             /\ Logged("perl required")
    /\ StepTimedOut
          => /\ calls[Len(calls)] = "timeout"
             /\ Cardinality(Runs("unpack.pl")) <= 1
             /\ Cardinality(Runs("convertpcb.pl")) <= 1
             /\ ~CopiedOut
             /\ pc \in {"restore", "rmtree", "done"}
             /\ pc = "done"
                  => /\ conv_result = None
                     /\ Logged("Conversion timed out") \/ RestoreFailed

\* unpack.pl ran into its timeout: convertpcb.pl was never run and the
\* attempt returned None
C19_Witness ==
    /\ pc = "done"
    /\ conv_result = None
    /\ calls[Len(calls)] = "timeout"
    /\ Runs("unpack.pl") # {}
    /\ Runs("convertpcb.pl") = {}
    /\ Logged("Conversion timed out")


-----------------------------------------------------------------------------
(* The preconditions of a conversion.                                       *)

\* C20: the interpreter is checked before the toolchain is looked for: when
\* the probe `perl --version` fails, nothing else is run to find the
\* toolchain, the conversion returns None, and the error reported is the one
\* of the missing interpreter alone, without the error of a toolchain
\* directory that cannot be located.
C20_InterpreterFirst ==
    ~check_perl(perl) /\ pc # "find"
        => /\ pc = "done"
           /\ conv_result = None
           /\ calls = <<"perl --version">>
           /\ Logged("perl required")
           /\ ~Logged("converter not found")


-----------------------------------------------------------------------------
(* A failed conversion in the upload pipeline.                              *)

\* the answer to an upload whose conversion failed
ConversionFailedFor(resp) ==
    resp.kind = "upload" /\ resp.converted \in {"ToolchainUnavailable", "ConversionFailed"}

\* C21: when the conversion of an uploaded Altium file fails, the pipeline
\* stops there: the KiCad parser is not run, no BOM and no artifact are
\* generated, the workspace holds no artifact, the registry is left as it
\* was, and the result says success false.
C21_ConversionFailureIsTerminal ==
    [][ConversionFailedFor(response') /\ response'.ws = nextWs' /\ nextWs' # nextWs
          => /\ ~response'.success
             /\ response'.status = 500
             /\ response'.stages = {"convert"}
             /\ disk'[response'.ws].out = NoArtifact
             /\ file_registry' = file_registry]_vars

\* an Altium upload was answered after its conversion failed
C21_Witness ==
    /\ ConversionFailedFor(response)
    /\ response.upload = "b.PcbDoc"
    /\ ~response.success

\* C22: when the conversion fails, the result of the upload tells which
\* failure it was: the error of a missing toolchain and the error of a
\* failed conversion differ from each other and from the error returned when
\* the parser gives no usable data.
C22_TypedFailureReturned ==
    ConversionFailedFor(response)
        => /\ response.error # ParseFailureText
           /\ response.error = response.converted


-----------------------------------------------------------------------------
(* The workspace of an upload.                                              *)

\* C23: for every upload that reaches process_file, the output directory of
\* the handler is the output/ subdirectory of the workspace root made for
\* this upload, and it exists on disk when process_file is called.
C23_OutputDirReady ==
    [][Processed(response') /\ nextWs' # nextWs
          => /\ handler'.set
             /\ handler'.temp_dir = nextWs'
             /\ handler'.output_dir = handler'.temp_dir
             /\ response'.output_ready
             /\ FileExists(disk', handler'.output_dir, "")]_vars

\* an upload was processed, and failed, in a workspace whose output
\* directory is there and empty
C23_Witness ==
    /\ Processed(response)
    /\ response.output_ready
    /\ ~response.success
    /\ disk[response.ws].exists
    /\ disk[response.ws].out = NoArtifact


\* the workspaces uploads have made so far: mkdtemp hands out 1, 2, ...
Created(n) == 1..n

-----------------------------------------------------------------------------
(* The life of a registry entry.                                            *)

\* the names the registry resolves
Registered(reg) == {n \in DOMAIN reg : reg[n] # NoDir}

\* C25: no request removes a registry entry; an upload changes the registry
\* only when its generation succeeded, and then only by binding the name of
\* its artifact to its own output directory; an upload that fails at any
\* step leaves the registry as it was.
C25_RegistryOnlyGrows ==
    [][/\ Registered(file_registry) \subseteq Registered(file_registry')
       /\ response'.kind \in {"status", "cleanup"} => file_registry' = file_registry
       /\ response'.kind = "upload" /\ file_registry' # file_registry
             => /\ response'.success
                /\ "generate" \in response'.stages
                /\ file_registry' = [file_registry EXCEPT ![response'.name] = response'.ws]
       /\ response'.kind = "upload" /\ nextWs' # nextWs /\ ~response'.success
             => file_registry' = file_registry]_vars

\* a cleanup was answered after two uploads, and a name an upload had
\* registered is still resolved
C25_Witness ==
    /\ response.kind = "cleanup"
    /\ Registered(file_registry) # {}
    /\ \E n \in ArtifactNames : uploads[n].ws # NoDir /\ file_registry[n] # NoDir
    /\ nextWs = 2


-----------------------------------------------------------------------------
(* More claims about the wire parser (checked under SpecParse).             *)

\* the body sent has a non-empty part without a blank line between its
\* header block and its payload
UnsplittablePartSent == sent.shape = "nosplit"

\* C26: when a non-empty part of the body has no blank line separating a
\* header section from a body section, the parser fails; it does not return
\* a field set.
C26_UnsplittablePartFails ==
    (form.done /\ UnsplittablePartSent /\ HasBoundaryParam(content_type)) => ~form.ok


\* what the parser would have returned for the same request in a runtime
\* where the availability of the cgi module is the other way round
OtherRuntime == parse_multipart_form_data(post_data, content_type, ~HAS_CGI)

\* C27: for every body and content type the parser returns the same thing,
\* failure or field set, whether or not the cgi module is available.
C27_SameWithAndWithoutCgi ==
    form.done
        => /\ form.ok = OtherRuntime.ok
           /\ form.ok => form.fields = OtherRuntime.fields


-----------------------------------------------------------------------------
(* Paths that come from the client.                                         *)

\* C28: whatever filename the client gives, the uploaded bytes are written
\* inside the workspace made for that upload: no upload leaves a file
\* outside its workspace.
C28_UploadStaysInWorkspace ==
    Processed(response) => outside = {}


\* the directories a GET may resolve a name to: what the registry held for
\* it, or a bom_* directory of the temp root
ResolvableDirs(reg, d, name) ==
    {w \in Workspaces : w = reg[name] \/ d[w].base = "tmp"}

\* C29: a GET under /generated/ looks up the last component of its path
\* only, never a parent reference, and a 200 carries the bytes of a regular
\* file of that name lying directly in the resolved output directory (the
\* registry's value for the name, or the output directory of a bom_*
\* directory of the temp root).
C29_ServesOnlyFromOutputDir ==
    [][(response'.kind = "get" /\ disk' = disk)
          => /\ response'.name \in RequestNames
             /\ Registered(file_registry') \subseteq RequestNames
             /\ response'.status = 200
                   => \E w \in ResolvableDirs(file_registry, disk, response'.name) :
                         /\ IsFile(disk, w, response'.name)
                         /\ response'.body = disk[w].out.content
                         /\ file_registry'[response'.name] = w]_vars

\* an artifact found by the scan of the temp root was served
C29_Witness ==
    /\ response.kind = "get"
    /\ response.status = 200
    /\ response.name = "ibom.html"
    /\ file_registry["ibom.html"] = Old
    /\ response.body = Old


-----------------------------------------------------------------------------
(* Two uploads that generate the same artifact name.                        *)

\* the workspaces whose upload succeeded with artifact name F: generate_file
\* wrote F into their output directory
GeneratedIn(d, n, F) == {w \in Created(n) : d[w].exists /\ d[w].out.name = F}

Max(S) == CHOOSE x \in S : \A y \in S : y <= x

\* C30: the registry holds one directory per artifact name, that of the
\* last upload that generated it: after two successful uploads generated F,
\* in W1 and then in W2, a GET /generated/F answers with the file of W2, and
\* never with the file of W1.
C30_LastRegistrationWins ==
    [][\A F \in ArtifactNames :
          LET ws == GeneratedIn(disk', nextWs', F)
          IN  ws # {}
                => /\ file_registry'[F] = Max(ws)
                   /\ (response'.kind = "get" /\ response'.name = F /\ disk' = disk)
                         => /\ response'.status = 200
                            /\ response'.body = disk'[Max(ws)].out.content
                            /\ \A w \in ws \ {Max(ws)} :
                                  response'.body # disk'[w].out.content]_vars

\* two uploads generated ibom.html and a GET for it was answered from the
\* second one's workspace
C30_Witness ==
    /\ GeneratedIn(disk, nextWs, "ibom.html") = {1, 2}
    /\ response.kind = "get"
    /\ response.name = "ibom.html"
    /\ response.status = 200
    /\ response.body = disk[2].out.content

====
